---- MODULE Spec2Model ----
(***************************************************************************)
(* State-machine model of the Interactivity plugin (src/main.ts): the      *)
(* execute / restart commands, the warm-up timers, the session table of    *)
(* external interpreter processes, the asynchronous document reads of the  *)
(* JSON protocol, the output listeners and the output inserter.            *)
(*                                                                         *)
(* Text is a sequence of one-character strings; a document is one text     *)
(* whose lines are separated by the line-break character.                  *)
(*                                                                         *)
(* The model is of the desktop build (Platform.isMobile is false). Each    *)
(* document has one view. What the environment decides is an input of the  *)
(* action: whether the interpreter starts, whether the calls of a teardown *)
(* throw, what in-process evaluation returns or throws, what a process     *)
(* prints. The editor keeps the cursor in front of text inserted at the    *)
(* cursor, and Enter breaks the line at the cursor without indenting. The  *)
(* frontmatter of the JSON envelope is not modelled: no document of the    *)
(* model has a header.                                                     *)
(***************************************************************************)
EXTENDS Integers, Sequences, FiniteSets, TLC

\* ------------------------------------------------------------------ bounds

\* Invocations of the execute command in one behaviour.
MaxExec == 2
\* External processes spawned in one behaviour.
MaxProcs == 2
\* Warm-up timers pending at once for one view.
MaxTimers == 1
\* Setting changes saved in one behaviour.
MaxSettingsChanges == 1
\* Output chunks a process emits in answer to one command.
MaxChunksPerCmd == 1
\* Handlers run in one behaviour.
MaxSteps == 6
\* Handlers other than timer callbacks run in one behaviour with fair timers.
MaxLiveSteps == 4
\* Notices about a missing child_process module in one behaviour.
MaxUnableNotices == 1
\* Lines of a document handed to the block locator.
MaxDocLines == 4
\* Rules of a rule set handed to the shortcut expander.
MaxRules == 3
\* Characters of a parameter handed to the shortcut expander.
MaxParamLen == 5
\* Characters of a parameter expanded by a template with a raw placeholder.
MaxRawParamLen == 3
\* Characters of an output handed to the output inserter.
MaxDataLen == 4

\* ------------------------------------------------------------------- text

NL == "\n"
BS == "\\"
None == "none"

IsSpace(c) == c \in {" ", "\n", "\t", "\r"}

RECURSIVE TrimStart(_)
\* String.prototype.trimStart
TrimStart(s) ==
    IF s = <<>> THEN <<>>
    ELSE IF IsSpace(Head(s)) THEN TrimStart(Tail(s)) ELSE s

RECURSIVE TrimEnd(_)
\* String.prototype.trimEnd
TrimEnd(s) ==
    IF s = <<>> THEN <<>>
    ELSE IF IsSpace(s[Len(s)]) THEN TrimEnd(SubSeq(s, 1, Len(s) - 1)) ELSE s

\* String.prototype.trim
Trim(s) == TrimEnd(TrimStart(s))

\* String.prototype.startsWith
StartsWith(s, p) == Len(p) <= Len(s) /\ SubSeq(s, 1, Len(p)) = p

\* String.prototype.includes
Includes(s, p) == \E i \in 1..(Len(s) - Len(p) + 1) : SubSeq(s, i, i + Len(p) - 1) = p

RECURSIVE Split(_, _)
\* String.prototype.split on a one-character separator
Split(s, sep) ==
    IF \A i \in 1..Len(s) : s[i] # sep THEN <<s>>
    ELSE LET i == CHOOSE k \in 1..Len(s) : s[k] = sep /\ \A j \in 1..(k - 1) : s[j] # sep
         IN  <<SubSeq(s, 1, i - 1)>> \o Split(SubSeq(s, i + 1, Len(s)), sep)

RECURSIVE Join(_, _)
\* Array.prototype.join
Join(parts, sep) ==
    IF parts = <<>> THEN <<>>
    ELSE IF Len(parts) = 1 THEN parts[1]
    ELSE parts[1] \o sep \o Join(Tail(parts), sep)

RECURSIVE ReplaceAll(_, _, _)
\* String.prototype.replace with a global pattern that matches the literal
\* text pat (pat is not empty): leftmost matches, not overlapping.
ReplaceAll(s, pat, rep) ==
    IF Len(s) < Len(pat) THEN s
    ELSE IF SubSeq(s, 1, Len(pat)) = pat
         THEN rep \o ReplaceAll(SubSeq(s, Len(pat) + 1, Len(s)), pat, rep)
         ELSE <<Head(s)>> \o ReplaceAll(Tail(s), pat, rep)

\* The document of an editor as its lines (Editor.getLine, Editor.lineCount).
Lines(text) == Split(text, NL)

\* Editor.getLine: the text of line n (0-based), empty outside the document.
GetLine(text, n) ==
    IF n >= 0 /\ n < Len(Lines(text)) THEN Lines(text)[n + 1] ELSE <<>>

RECURSIVE SumLen(_, _)
SumLen(ls, n) == IF n = 0 THEN 0 ELSE Len(ls[n]) + 1 + SumLen(ls, n - 1)

\* The offset (number of characters before it) of an editor position; a
\* position outside the document is clipped into it, as the editor does.
PosToOffset(text, pos) ==
    LET ls == Lines(text)
        ln == IF pos.line < 0 THEN 0
              ELSE IF pos.line >= Len(ls) THEN Len(ls) - 1 ELSE pos.line
        ch == IF pos.line < 0 THEN 0
              ELSE IF pos.line >= Len(ls) THEN Len(ls[Len(ls)])
              ELSE IF pos.ch < 0 THEN 0
              ELSE IF pos.ch > Len(ls[ln + 1]) THEN Len(ls[ln + 1]) ELSE pos.ch
    IN  SumLen(ls, ln) + ch

\* The editor position of an offset.
OffsetToPos(text, off) ==
    LET before == SubSeq(text, 1, off)
        ls == Lines(before)
    IN  [line |-> Len(ls) - 1, ch |-> Len(ls[Len(ls)])]

\* Editor.setCursor: the position, clipped into the document.
ClipPos(text, pos) == OffsetToPos(text, PosToOffset(text, pos))

\* Editor.replaceRange(ins, from, to): the new document text.
ReplaceRange(text, ins, from, to) ==
    LET a == PosToOffset(text, from)
        b == PosToOffset(text, to)
    IN  SubSeq(text, 1, a) \o ins \o SubSeq(text, b + 1, Len(text))

\* --------------------------------------------------------- block locator

\* The editor lines findBlockAtCursor takes for delimiter lines: the trimmed
\* line equals the trimmed delimiter or starts with it and a space.
IsDelimiterLine(line, delimiter) ==
    LET lineTrimmed == Trim(line)
        delimTrimmed == Trim(delimiter)
    IN  lineTrimmed = delimTrimmed \/ StartsWith(lineTrimmed, delimTrimmed \o <<" ">>)

RECURSIVE DelimiterLinesFrom(_, _, _)
\* delimiterLines: the 0-based indices of the delimiter lines, ascending.
DelimiterLinesFrom(ls, delimiter, i) ==
    IF i > Len(ls) THEN <<>>
    ELSE (IF IsDelimiterLine(ls[i], delimiter) THEN <<i - 1>> ELSE <<>>)
         \o DelimiterLinesFrom(ls, delimiter, i + 1)

NoBlock == [found |-> FALSE, content |-> <<>>, startLine |-> -1, endLine |-> -1]

\* findBlockAtCursor with the two delimiter lines kept in the content.
findBlockAtCursor_WithDelimiters(text, cursorLine, delimiter) ==
    LET ls == Lines(text)
        delimiterLines == DelimiterLinesFrom(ls, delimiter, 1)
        hits == {i \in 1..(Len(delimiterLines) - 1) :
                    cursorLine >= delimiterLines[i] /\ cursorLine <= delimiterLines[i + 1]}
    IN  IF Len(delimiterLines) < 2 \/ hits = {} THEN NoBlock
        ELSE LET i == CHOOSE k \in hits : \A j \in hits : k <= j
                 startLine == delimiterLines[i]
                 endLine == delimiterLines[i + 1]
             IN  [found |-> TRUE,
                  content |-> Join(SubSeq(ls, startLine + 1, endLine + 1), <<NL>>),
                  startLine |-> startLine,
                  endLine |-> endLine]

\* findBlockAtCursor falling back to the whole document when no pair of
\* delimiter lines holds the cursor.
findBlockAtCursor_WholeDocument(text, cursorLine, delimiter) ==
    LET ls == Lines(text)
        delimiterLines == DelimiterLinesFrom(ls, delimiter, 1)
        hits == {i \in 1..(Len(delimiterLines) - 1) :
                    cursorLine >= delimiterLines[i] /\ cursorLine <= delimiterLines[i + 1]}
    IN  IF Len(delimiterLines) < 2 \/ hits = {}
        THEN [found |-> TRUE, content |-> text, startLine |-> 0, endLine |-> Len(ls) - 1]
        ELSE LET i == CHOOSE k \in hits : \A j \in hits : k <= j
                 startLine == delimiterLines[i]
                 endLine == delimiterLines[i + 1]
             IN  [found |-> TRUE,
                  content |-> Join(SubSeq(ls, startLine + 2, endLine), <<NL>>),
                  startLine |-> startLine,
                  endLine |-> endLine]

\* findBlockAtCursor: the first pair of consecutive delimiter lines whose
\* inclusive range holds the cursor line, with the lines strictly between.
findBlockAtCursor(text, cursorLine, delimiter) ==
    LET ls == Lines(text)
        delimiterLines == DelimiterLinesFrom(ls, delimiter, 1)
        hits == {i \in 1..(Len(delimiterLines) - 1) :
                    cursorLine >= delimiterLines[i] /\ cursorLine <= delimiterLines[i + 1]}
    IN  IF Len(delimiterLines) < 2 \/ hits = {} THEN NoBlock
        ELSE LET i == CHOOSE k \in hits : \A j \in hits : k <= j
                 startLine == delimiterLines[i]
                 endLine == delimiterLines[i + 1]
             IN  [found |-> TRUE,
                  content |-> Join(SubSeq(ls, startLine + 2, endLine), <<NL>>),
                  startLine |-> startLine,
                  endLine |-> endLine]

\* ------------------------------------------------------ shortcut expander

Arrow == <<"-", ">">>
Q3 == <<"\"", "\"", "\"">>
A3 == <<"'", "'", "'">>
ParamToken == <<"#", "#", "p", "a", "r", "a", "m", "#", "#">>
RawParamToken == <<"r">> \o ParamToken

\* The index of the first occurrence of pat in s, 0 when there is none.
IndexOf(s, pat) ==
    IF Includes(s, pat)
    THEN CHOOSE i \in 1..(Len(s) - Len(pat) + 1) :
            /\ SubSeq(s, i, i + Len(pat) - 1) = pat
            /\ \A j \in 1..(i - 1) : SubSeq(s, j, j + Len(pat) - 1) # pat
    ELSE 0

\* shortcutDef.match(/(.*?)\s*->\s*(.*)/): the lazy first group ends where
\* the white space before the first arrow starts, the second group is the
\* rest of the line after the arrow and the white space that follows it.
RuleOf(shortcutDef) ==
    LET at == IndexOf(shortcutDef, Arrow)
    IN  IF at = 0 THEN [matched |-> FALSE, trigger |-> <<>>, template |-> <<>>]
        ELSE [matched |-> TRUE,
              trigger |-> TrimEnd(SubSeq(shortcutDef, 1, at - 1)),
              template |-> TrimStart(SubSeq(shortcutDef, at + 2, Len(shortcutDef)))]

RECURSIVE StripLeadingNL(_)
StripLeadingNL(s) == IF s # <<>> /\ Head(s) = NL THEN StripLeadingNL(Tail(s)) ELSE s

RECURSIVE StripTrailingNL(_)
StripTrailingNL(s) ==
    IF s # <<>> /\ s[Len(s)] = NL THEN StripTrailingNL(SubSeq(s, 1, Len(s) - 1)) ELSE s

\* The expansion of one matching rule with the parameter substituted as it
\* is, its triple double quotes not escaped.
Expand_Unescaped(lines, firstLine, trigger, template) ==
    LET firstLineRemainder == TrimStart(SubSeq(firstLine, Len(trigger) + 1, Len(firstLine)))
        paramLines == (IF firstLineRemainder # <<>> THEN <<firstLineRemainder>> ELSE <<>>)
                      \o Tail(lines)
        trimmed == StripTrailingNL(StripLeadingNL(Trim(Join(paramLines, <<NL>>))))
        alreadyQuoted == \/ Includes(template, Q3 \o ParamToken)
                         \/ Includes(template, A3 \o ParamToken)
                         \/ Includes(template, ParamToken \o Q3)
                         \/ Includes(template, ParamToken \o A3)
        param == trimmed
        useRaw == Includes(template, RawParamToken)
        quotedParam == (IF useRaw THEN <<"r">> ELSE <<>>) \o Q3 \o param \o Q3
    IN  IF alreadyQuoted THEN ReplaceAll(template, ParamToken, param)
        ELSE ReplaceAll(ReplaceAll(template, ParamToken, quotedParam),
                        RawParamToken, quotedParam)

\* The expansion of one matching rule (the body of the if in the loop).
Expand(lines, firstLine, trigger, template) ==
    LET firstLineRemainder == TrimStart(SubSeq(firstLine, Len(trigger) + 1, Len(firstLine)))
        paramLines == (IF firstLineRemainder # <<>> THEN <<firstLineRemainder>> ELSE <<>>)
                      \o Tail(lines)
        trimmed == StripTrailingNL(StripLeadingNL(Trim(Join(paramLines, <<NL>>))))
        alreadyQuoted == \/ Includes(template, Q3 \o ParamToken)
                         \/ Includes(template, A3 \o ParamToken)
                         \/ Includes(template, ParamToken \o Q3)
                         \/ Includes(template, ParamToken \o A3)
        param == ReplaceAll(trimmed, Q3, <<BS>> \o Q3)
        useRaw == Includes(template, RawParamToken)
        quotedParam == (IF useRaw THEN <<"r">> ELSE <<>>) \o Q3 \o param \o Q3
    IN  IF alreadyQuoted THEN ReplaceAll(template, ParamToken, param)
        ELSE ReplaceAll(ReplaceAll(template, ParamToken, quotedParam),
                        RawParamToken, quotedParam)

RECURSIVE ApplyRules_FirstMatch(_, _, _, _, _)
\* The loop of applyShortcuts taking the first rule that matches.
ApplyRules_FirstMatch(content, defs, i, matchedShortcutLen, result) ==
    IF i > Len(defs) THEN result
    ELSE LET lines == Split(content, NL)
             firstLine == lines[1]
             rule == RuleOf(defs[i])
         IN  IF Trim(defs[i]) = <<>> \/ ~rule.matched
             THEN ApplyRules_FirstMatch(content, defs, i + 1, matchedShortcutLen, result)
             ELSE IF /\ StartsWith(firstLine, rule.trigger) /\ Len(rule.trigger) > 0
                     /\ matchedShortcutLen = 0
             THEN ApplyRules_FirstMatch(content, defs, i + 1, Len(rule.trigger),
                                        Expand(lines, firstLine, rule.trigger, rule.template))
             ELSE ApplyRules_FirstMatch(content, defs, i + 1, matchedShortcutLen, result)

RECURSIVE ApplyRules_AtLeast(_, _, _, _, _)
\* The loop of applyShortcuts taking a rule whose trigger is at least as long
\* as the longest matched so far.
ApplyRules_AtLeast(content, defs, i, matchedShortcutLen, result) ==
    IF i > Len(defs) THEN result
    ELSE LET lines == Split(content, NL)
             firstLine == lines[1]
             rule == RuleOf(defs[i])
         IN  IF Trim(defs[i]) = <<>> \/ ~rule.matched
             THEN ApplyRules_AtLeast(content, defs, i + 1, matchedShortcutLen, result)
             ELSE IF StartsWith(firstLine, rule.trigger) /\ Len(rule.trigger) >= matchedShortcutLen
             THEN ApplyRules_AtLeast(content, defs, i + 1, Len(rule.trigger),
                                     Expand(lines, firstLine, rule.trigger, rule.template))
             ELSE ApplyRules_AtLeast(content, defs, i + 1, matchedShortcutLen, result)

RECURSIVE ApplyRules(_, _, _, _, _)
\* The loop of applyShortcuts over the lines of the shortcuts setting, from
\* definition i on, with the length matched and the result so far.
ApplyRules(content, defs, i, matchedShortcutLen, result) ==
    IF i > Len(defs) THEN result
    ELSE LET lines == Split(content, NL)
             firstLine == lines[1]
             rule == RuleOf(defs[i])
         IN  IF Trim(defs[i]) = <<>> \/ ~rule.matched
             THEN ApplyRules(content, defs, i + 1, matchedShortcutLen, result)
             ELSE IF StartsWith(firstLine, rule.trigger) /\ Len(rule.trigger) > matchedShortcutLen
             THEN ApplyRules(content, defs, i + 1, Len(rule.trigger),
                             Expand(lines, firstLine, rule.trigger, rule.template))
             ELSE ApplyRules(content, defs, i + 1, matchedShortcutLen, result)

\* applyShortcuts(content, shortcuts)
applyShortcuts(content, shortcuts) ==
    ApplyRules(content, Split(shortcuts, NL), 1, 0, content)

\* -------------------------------------------------------- output inserter

\* /\n*$/ matches at the text from offset i + 1 on: only line breaks follow.
OnlyBreaksFrom(s, i) == \A j \in i..Len(s) : s[j] = NL

RECURSIVE DecorateFrom(_, _, _)
\* data.replace(/(^|[^\\])\n(?!\n*$)/g, `$1\n${prependOutput}`) scanning from
\* index i: a match is a line break at the start of the text, or a character
\* other than a backslash followed by a line break, in both cases with
\* something other than line breaks after it; the scan goes on after the
\* match, so the character a match consumed starts no other match.
DecorateFrom(s, prefix, i) ==
    IF i > Len(s) THEN <<>>
    ELSE IF i = 1 /\ s[1] = NL /\ ~OnlyBreaksFrom(s, 2)
    THEN <<NL>> \o prefix \o DecorateFrom(s, prefix, 2)
    ELSE IF s[i] # BS /\ i + 1 <= Len(s) /\ s[i + 1] = NL /\ ~OnlyBreaksFrom(s, i + 2)
    THEN <<s[i], NL>> \o prefix \o DecorateFrom(s, prefix, i + 2)
    ELSE <<s[i]>> \o DecorateFrom(s, prefix, i + 1)

\* The text insertText hands to replaceRange, and the line count it adds to
\* the cursor line.
InsertBody(data, decorateMultiline, prependOutput) ==
    LET noCR == SelectSeq(data, LAMBDA c : c # "\r")
        decorated == IF decorateMultiline THEN DecorateFrom(noCR, prependOutput, 1) ELSE noCR
        stripped == IF decorated # <<>> /\ decorated[Len(decorated)] = NL
                    THEN SubSeq(decorated, 1, Len(decorated) - 1) ELSE decorated
    IN  [body |-> <<NL>> \o prependOutput \o stripped,
         lines |-> Len(Split(decorated, NL))]

\* insertText without notice mode: the document and the cursor afterwards.
\* replaceRange at the cursor leaves the cursor before the inserted text.
insertText(text, cur, data, decorateMultiline, prependOutput) ==
    LET ib == InsertBody(data, decorateMultiline, prependOutput)
        newText == ReplaceRange(text, ib.body, cur, cur)
        target == cur.line + ib.lines
    IN  [text |-> newText,
         cursor |-> ClipPos(newText, [line |-> target, ch |-> Len(GetLine(newText, target))])]

\* ------------------------------------------------------------ the plugin

Docs == {"A.md", "B.md"}
Keys == {"js", "*"} \cup Docs

\* Values of the session table allSubprocesses: no entry, the entry `true`
\* of basic mode, or a process (its index in procs).
Absent == 0
JsTrue == -1

Delim == <<"%", "%", "%">>
Prompt == <<">", ">", ">", " ">>
ExitText == <<"e", "x", "i", "t", "(", ")", NL>>
OnLoadText == <<"s", "k", NL>>
DefaultShortcuts ==
    <<"@", " ", "-", ">", " ">> \o ParamToken \o <<NL>>
    \o <<"@", "@", " ", "-", ">", " ", "c", "h", "a", "t", "(">> \o ParamToken \o <<")", NL>>

\* DEFAULT_SETTINGS, the fields the model reads. shellExec, shellParams and
\* enviromentVariables only shape the spawn call, whose outcome is an input
\* of the warm-up; regexpCleaner is the default pattern (see Clean).
DEFAULT_SETTINGS ==
    [executeOnLoad |-> OnLoadText,
     notice |-> FALSE,
     decorateMultiline |-> TRUE,
     linesToSuppress |-> 0,
     separatedShells |-> FALSE,
     prependOutput |-> Prompt,
     executeOnUnload |-> ExitText,
     shortcuts |-> DefaultShortcuts,
     advanced |-> FALSE,
     blockDelimiter |-> Delim,
     useJsonProtocol |-> TRUE]

\* The documents of the vault when the plugin loads.
InitialText(d) ==
    IF d = "A.md" THEN Delim \o <<NL, "x", NL>> \o Delim
    ELSE <<"@", "y">>

\* The cursor of each editor when the plugin loads: in A.md inside the block.
InitialCursor(d) == IF d = "A.md" THEN [line |-> 1, ch |-> 0] ELSE [line |-> 0, ch |-> 0]

VARIABLES
    settings,         \* this.settings
    advanced,         \* this.advanced
    allSubprocesses,  \* this.allSubprocesses: routing key -> session
    processingNote,   \* this.processingNote
    statusBar,        \* the text of statusBarItemEl
    notices,          \* the notices shown, oldest first
    procs,            \* the external processes spawned, in spawn order
    timers,           \* pending setTimeout(warmup) callbacks, per view
    reads,            \* pending cachedRead continuations of the JSON protocol
    activeFile,       \* workspace.getActiveFile().path
    text,             \* the text of each document
    cursor,           \* the cursor of each document's editor
    loaded,           \* the plugin is loaded (onunload has not run)
    execCount,        \* invocations of the execute command
    settingsChanges,  \* setting changes saved
    fault,            \* the last exception that escaped a handler
    steps,            \* handlers run so far
    call,             \* a call of one of the pure functions: name and arguments
    returned          \* what that call returned

\* The state of the plugin.
pluginVars == <<settings, advanced, allSubprocesses, processingNote, statusBar,
                notices, procs, timers, reads, activeFile, text, cursor, loaded,
                execCount, settingsChanges, fault, steps>>

vars == <<settings, advanced, allSubprocesses, processingNote, statusBar,
          notices, procs, timers, reads, activeFile, text, cursor, loaded,
          execCount, settingsChanges, fault, steps, call, returned>>

\* No call of a pure function is observed.
NoCall == [fn |-> "none"]

\* A value in-process evaluation returns or throws: undefined, null, a string,
\* or an Error object (text: what its toString gives).
NoEval == [thrown |-> FALSE, kind |-> "none", text |-> <<>>]

\* The routing key of a handler called with the view of document d.
fileKey(d) ==
    IF advanced THEN (IF settings.separatedShells THEN d ELSE "*") ELSE "js"

\* The state after onload: settings loaded (the saved data may set
\* advanced), no session, and the initial warm-up timer pending for the
\* active view.
Init ==
    /\ \E a \in BOOLEAN :
          /\ settings = [DEFAULT_SETTINGS EXCEPT !.advanced = a]
          /\ advanced = a
    /\ allSubprocesses = [k \in Keys |-> Absent]
    /\ processingNote = ""
    /\ statusBar = ""
    /\ notices = <<>>
    /\ procs = <<>>
    /\ activeFile = "A.md"
    /\ timers = [d \in Docs |-> IF d = "A.md" THEN 1 ELSE 0]
    /\ reads = {}
    /\ text = [d \in Docs |-> InitialText(d)]
    /\ cursor = [d \in Docs |-> InitialCursor(d)]
    /\ loaded = TRUE
    /\ execCount = 0
    /\ settingsChanges = 0
    /\ fault = "none"
    /\ steps = 0
    /\ call = NoCall
    /\ returned = NoCall

\* ---------------------------------------------------------- the workspace

\* The user activates the view of another document.
SwitchDoc(d) ==
    /\ d # activeFile
    /\ activeFile' = d
    /\ UNCHANGED <<settings, advanced, allSubprocesses, processingNote,
                   statusBar, notices, procs, timers, reads, text, cursor, loaded,
                   execCount, settingsChanges, fault>>

\* ------------------------------------------------------------ settings tab

\* The values a control of the settings tab can give a setting.
SettingValues(f) ==
    CASE f = "advanced" -> BOOLEAN
      [] f = "useJsonProtocol" -> BOOLEAN
      [] f = "separatedShells" -> BOOLEAN
      [] f = "notice" -> BOOLEAN
      [] f = "executeOnUnload" -> {<<>>, ExitText}
      [] f = "linesToSuppress" -> {0, 1}

ChangeableSettings ==
    {"advanced", "useJsonProtocol", "separatedShells", "notice", "executeOnUnload",
     "linesToSuppress"}

\* saveSettings: the desktop build takes advanced from the settings.
saveSettings(newSettings) ==
    /\ settings' = newSettings
    /\ advanced' = newSettings.advanced

\* An onChange handler of the settings tab: set the field, saveSettings().
ChangeSetting(f, v) ==
    /\ loaded
    /\ settingsChanges < MaxSettingsChanges
    /\ settings[f] # v
    /\ saveSettings([settings EXCEPT ![f] = v])
    /\ settingsChanges' = settingsChanges + 1
    /\ UNCHANGED <<allSubprocesses, processingNote, statusBar, notices, procs,
                   timers, reads, activeFile, text, cursor, loaded, execCount, fault>>

\* ------------------------------------------------------ external processes

\* What the build can do in the try block of a teardown: both calls return,
\* the write to stdin throws (kill is then skipped), or kill throws.
TeardownOutcomes ==
    IF settings.executeOnUnload # <<>> THEN {"ok", "writeThrows", "killThrows"}
    ELSE {"ok", "killThrows"}

\* What starting the interpreter can do: the process runs; spawn returns a
\* process object whose start failed (the error is reported later, on the
\* object); spawn throws; the child_process module is missing.
SpawnOutcomes == {"ok", "enoent", "throws", "nomodule"}

Msg(kind, id, doc, data) ==
    [kind |-> kind, id |-> id, doc |-> doc, data |-> data,
     notePath |-> None, cursorLine |-> -1, selectedText |-> <<>>]

\* proc.stdin.write(m) on process p: the message is written; a running
\* process owes output for a command.
Write(ps, p, m) ==
    [ps EXCEPT ![p] = [@ EXCEPT
        !.stdin = Append(@, m),
        !.outq = IF ps[p].alive /\ m.doc # None
                 THEN @ \o [i \in 1..MaxChunksPerCmd |-> [origin |-> m.doc, id |-> m.id]]
                 ELSE @]]

\* try { if (executeOnUnload) proc.stdin.write(executeOnUnload + '\n');
\*       proc.kill(); } catch (e) {}
Teardown(ps, p, o) ==
    LET written == IF settings.executeOnUnload # <<>> /\ o # "writeThrows"
                   THEN Write(ps, p, Msg("unload", 0, None, settings.executeOnUnload \o <<NL>>))
                   ELSE ps
    IN  [written EXCEPT ![p].alive = IF o = "ok" THEN FALSE ELSE @]

\* cp.spawn(...) and the set-up of the process object in warmup.
Spawned(key, o) ==
    LET fresh == [key |-> key, alive |-> (o = "ok"), stdin |-> <<>>, omitted |-> 0,
                  outq |-> <<>>,
                  \* history: the suppression count configured when the process
                  \* was spawned, and the chunks received from it since
                  suppress |-> settings.linesToSuppress, received |-> 0]
        ps == Append(procs, fresh)
    IN  IF settings.executeOnLoad # <<>>
        THEN Write(ps, Len(ps), Msg("load", 0, None, settings.executeOnLoad \o <<NL>>))
        ELSE ps

\* ---------------------------------------------------------------- restart

\* The restart command run from the command palette (warmupOnly is false).
RestartCmd(o) ==
    /\ loaded
    /\ timers[activeFile] < MaxTimers
    /\ LET key == fileKey(activeFile)
           proc == allSubprocesses[key]
       IN  /\ IF proc # Absent /\ advanced
              THEN /\ o \in TeardownOutcomes
                   /\ procs' = Teardown(procs, proc, o)
                   /\ allSubprocesses' = [allSubprocesses EXCEPT ![key] = Absent]
              ELSE /\ o = "ok"
                   /\ UNCHANGED <<procs, allSubprocesses>>
    /\ timers' = [timers EXCEPT ![activeFile] = @ + 1]
    /\ UNCHANGED <<settings, advanced, processingNote, statusBar, notices, reads,
                   activeFile, text, cursor, loaded, execCount, settingsChanges, fault>>

\* The keydown handler running the restart command without the warm-up flag.
Keydown_TearsDown == RestartCmd("ok")

\* A keydown other than Enter (or Enter with Shift) while the settings tab
\* is closed: the restart command with warmupOnly set, which only schedules
\* the warm-up. this.modal stops the warm-up only while the settings tab is
\* displayed; the user opens and closes the tab at will, so the flag takes no
\* behaviour away and is not a variable of the model.
Keydown ==
    /\ loaded
    /\ timers[activeFile] < MaxTimers
    /\ timers' = [timers EXCEPT ![activeFile] = @ + 1]
    /\ UNCHANGED <<settings, advanced, allSubprocesses, processingNote, statusBar,
                   notices, procs, reads, activeFile, text, cursor, loaded, execCount,
                   settingsChanges, fault>>

UnableNotice == [kind |-> "unable", text |-> <<>>]
NoBlockNotice == [kind |-> "noblock", text |-> <<>>]

\* warmup that records nothing in basic mode.
warmup_BasicNotRecorded(d, o) ==
    LET key == fileKey(d)
    IN  IF allSubprocesses[key] # Absent
        THEN /\ o = "present"
             /\ UNCHANGED <<allSubprocesses, procs, notices, fault>>
        ELSE IF ~advanced
        THEN /\ o = "js"
             /\ UNCHANGED <<allSubprocesses, procs, notices, fault>>
        ELSE /\ o \in SpawnOutcomes
             /\ CASE o = "nomodule" ->
                       /\ Cardinality({i \in 1..Len(notices) : notices[i] = UnableNotice})
                             < MaxUnableNotices
                       /\ notices' = Append(notices, UnableNotice)
                       /\ UNCHANGED <<allSubprocesses, procs, fault>>
                  [] o = "throws" ->
                       /\ fault' = "spawn"
                       /\ UNCHANGED <<allSubprocesses, procs, notices>>
                  [] OTHER ->
                       /\ Len(procs) < MaxProcs
                       /\ procs' = Spawned(key, o)
                       /\ allSubprocesses' = [allSubprocesses EXCEPT ![key] = Len(procs) + 1]
                       /\ UNCHANGED <<notices, fault>>

\* warmup(editor, view) for the view of document d; o is what starting the
\* process does when warmup gets that far.
warmup(d, o) ==
    LET key == fileKey(d)
    IN  IF allSubprocesses[key] # Absent
        THEN /\ o = "present"
             /\ UNCHANGED <<allSubprocesses, procs, notices, fault>>
        ELSE IF ~advanced
        THEN /\ o = "js"
             /\ allSubprocesses' = [allSubprocesses EXCEPT ![key] = JsTrue]
             /\ UNCHANGED <<procs, notices, fault>>
        ELSE /\ o \in SpawnOutcomes
             /\ CASE o = "nomodule" ->
                       /\ Cardinality({i \in 1..Len(notices) : notices[i] = UnableNotice})
                             < MaxUnableNotices
                       /\ notices' = Append(notices, UnableNotice)
                       /\ UNCHANGED <<allSubprocesses, procs, fault>>
                  [] o = "throws" ->
                       /\ fault' = "spawn"
                       /\ UNCHANGED <<allSubprocesses, procs, notices>>
                  [] OTHER ->
                       /\ Len(procs) < MaxProcs
                       /\ procs' = Spawned(key, o)
                       /\ allSubprocesses' = [allSubprocesses EXCEPT ![key] = Len(procs) + 1]
                       /\ UNCHANGED <<notices, fault>>

\* A warm-up timer of the view of document d fires.
WarmupTimer(d, o) ==
    /\ timers[d] > 0
    /\ timers' = [timers EXCEPT ![d] = @ - 1]
    /\ warmup(d, o)
    /\ UNCHANGED <<settings, advanced, processingNote, statusBar, reads,
                   activeFile, text, cursor, loaded, execCount, settingsChanges>>

\* The processes the session table records.
Recorded == {allSubprocesses[k] : k \in Keys} \cap (1..Len(procs))

\* onunload(): tear down every recorded process when advanced is set, then
\* empty the table. fo gives the outcome of each teardown.
onunload(fo) ==
    /\ procs' = [p \in 1..Len(procs) |->
                    IF p \in Recorded /\ advanced THEN Teardown(procs, p, fo[p])[p]
                    ELSE procs[p]]
    /\ allSubprocesses' = [k \in Keys |-> Absent]

\* The plugin is unloaded.
Unload ==
    /\ loaded
    /\ \E fo \in [Recorded -> IF advanced THEN TeardownOutcomes ELSE {"ok"}] : onunload(fo)
    /\ loaded' = FALSE
    /\ UNCHANGED <<settings, advanced, processingNote, statusBar, notices, timers,
                   reads, activeFile, text, cursor, execCount, settingsChanges, fault>>

\* ---------------------------------------------------------------- execute

\* selection.match(delimRegex) for the pattern
\* ^\s*DELIM\s*\n([\s\S]*?)\n\s*DELIM\s*$ : the selection is white space, the
\* delimiter, white space ending in a line break, the content, a line break,
\* white space, the delimiter, white space. Content from a to b: the greedy
\* white space after the first delimiter makes a the largest possible, the
\* lazy group then makes b the smallest.
DelimRegexMatch(sel, delim) ==
    LET lead == Len(sel) - Len(TrimStart(sel))
        e1 == lead + Len(delim)
        AllSpace(i, j) == \A k \in i..j : IsSpace(sel[k])
        Closes(b) == \E c \in (b + 2)..(Len(sel) - Len(delim) + 1) :
                        /\ AllSpace(b + 2, c - 1)
                        /\ SubSeq(sel, c, c + Len(delim) - 1) = delim
                        /\ AllSpace(c + Len(delim), Len(sel))
        cands == {ab \in (1..(Len(sel) + 1)) \X (0..Len(sel)) :
                    /\ ab[1] >= e1 + 2 /\ ab[2] >= ab[1] - 1 /\ ab[2] + 1 <= Len(sel)
                    /\ AllSpace(e1 + 1, ab[1] - 2) /\ sel[ab[1] - 1] = NL
                    /\ sel[ab[2] + 1] = NL
                    /\ Closes(ab[2])}
    IN  IF e1 > Len(sel) \/ SubSeq(sel, lead + 1, e1) # delim \/ cands = {}
        THEN [matched |-> FALSE, content |-> <<>>]
        ELSE LET best == CHOOSE ab \in cands : \A o \in cands :
                            ab[1] > o[1] \/ (ab[1] = o[1] /\ ab[2] <= o[2])
             IN  [matched |-> TRUE, content |-> SubSeq(sel, best[1], best[2])]

\* The command text routine works out from the selection and the cursor:
\* the block at the cursor when nothing is selected, the selection stripped
\* of its delimiters, or the selection itself, each with shortcuts applied.
CommandText(txt, cursorLine, selection) ==
    LET delimiter == settings.blockDelimiter
        block == IF Trim(selection) = <<>> /\ delimiter # <<>>
                 THEN findBlockAtCursor(txt, cursorLine, delimiter) ELSE NoBlock
        c1 == IF block.found THEN applyShortcuts(block.content, settings.shortcuts) ELSE <<>>
        m == IF c1 = <<>> /\ Trim(selection) # <<>> /\ delimiter # <<>>
                /\ Includes(selection, delimiter)
             THEN DelimRegexMatch(selection, delimiter)
             ELSE [matched |-> FALSE, content |-> <<>>]
        c2 == IF m.matched THEN applyShortcuts(m.content, settings.shortcuts) ELSE c1
    IN  IF c2 = <<>> /\ Trim(selection) # <<>>
        THEN applyShortcuts(selection, settings.shortcuts) ELSE c2

\* What the user can have selected in the active editor: nothing, or the
\* line of the cursor.
Selections == {<<>>, GetLine(text[activeFile], cursor[activeFile].line)}

\* What __EVAL(commandText) can do in the model: return undefined, null, the
\* empty string or a string, throw an Error, throw null.
EvalOutcomes ==
    {[thrown |-> FALSE, kind |-> "undefined", text |-> <<>>],
     [thrown |-> FALSE, kind |-> "null", text |-> <<>>],
     [thrown |-> FALSE, kind |-> "string", text |-> <<>>],
     [thrown |-> FALSE, kind |-> "string", text |-> <<"a">>],
     [thrown |-> TRUE, kind |-> "error", text |-> <<"E", ":", " ", "m">>],
     [thrown |-> TRUE, kind |-> "null", text |-> <<>>]}

\* output.toString() throws a TypeError for null (undefined never gets there).
ToStringThrows(v) == v.kind = "null"

\* insertText for the editor of document d, whose text is txt and whose
\* cursor is cur: a notice in notice mode, else the text spliced in at the
\* cursor.
InsertOutput(d, txt, cur, data) ==
    IF settings.notice
    THEN /\ notices' = Append(notices, [kind |-> "output", text |-> data])
         /\ text' = [text EXCEPT ![d] = txt]
         /\ cursor' = [cursor EXCEPT ![d] = cur]
    ELSE LET r == insertText(txt, cur, data, settings.decorateMultiline,
                             settings.prependOutput)
         IN  /\ text' = [text EXCEPT ![d] = r.text]
             /\ cursor' = [cursor EXCEPT ![d] = r.cursor]
             /\ UNCHANGED notices

\* The body of routine after the command text is known and not blank, in
\* basic mode: evaluate, and insert the textual form of what came out.
\* processingNote is the active document here: the callback has just set it.
EvalAndInsert(d, txt, atEnd, ev) ==
    /\ ev \in EvalOutcomes
    /\ UNCHANGED <<procs, reads>>
    /\ IF ev.kind = "undefined"
       THEN /\ statusBar' = "busy"
            /\ text' = [text EXCEPT ![d] = txt]
            /\ cursor' = [cursor EXCEPT ![d] = atEnd]
            /\ UNCHANGED <<notices, fault>>
       ELSE IF ToStringThrows(ev)
       THEN /\ statusBar' = "busy"
            /\ text' = [text EXCEPT ![d] = txt]
            /\ cursor' = [cursor EXCEPT ![d] = atEnd]
            /\ fault' = "toString"
            /\ UNCHANGED notices
       ELSE /\ InsertOutput(d, txt, atEnd, ev.text)
            /\ statusBar' = ""
            /\ UNCHANGED fault

\* The values a handler computes once and uses again are bound by \E over a
\* one-element set.

\* routine(that) of an execute in document d with session proc, run when the
\* editor holds txt with the cursor at cur; currentLine is the cursor line
\* the callback read when it was entered. The caller has set the status bar
\* to busy.
routine(d, proc, txt, cur, currentLine, selection, ev) ==
    \E key \in {fileKey(d)} :
    \E commandText \in {CommandText(txt, cur.line, selection)} :
    \E atEnd \in {ClipPos(txt, [line |-> currentLine,
                                 ch |-> Len(GetLine(txt, currentLine))])} :
        IF Trim(commandText) = <<>>
        THEN /\ ev = NoEval
             /\ statusBar' = ""
             /\ notices' = IF Trim(selection) = <<>>
                           THEN Append(notices, NoBlockNotice) ELSE notices
             /\ text' = [text EXCEPT ![d] = txt]
             /\ cursor' = [cursor EXCEPT ![d] = cur]
             /\ UNCHANGED <<procs, reads, fault>>
        ELSE IF advanced /\ settings.useJsonProtocol
        THEN /\ ev = NoEval
             /\ statusBar' = "busy"
             /\ text' = [text EXCEPT ![d] = txt]
             /\ cursor' = [cursor EXCEPT ![d] = atEnd]
             /\ reads' = reads \cup
                   {[id |-> execCount + 1, key |-> key, doc |-> d,
                     command |-> commandText, cursorLine |-> currentLine,
                     selectedText |-> selection,
                     \* history: the process recorded when the read started
                     proc |-> proc]}
             /\ UNCHANGED <<procs, notices, fault>>
        ELSE IF advanced
        THEN /\ ev = NoEval
             /\ statusBar' = "busy"
             /\ text' = [text EXCEPT ![d] = txt]
             /\ cursor' = [cursor EXCEPT ![d] = atEnd]
             /\ procs' = Write(procs, proc,
                               Msg("plain", execCount + 1, d, commandText \o <<NL>>))
             /\ UNCHANGED <<reads, notices, fault>>
        ELSE EvalAndInsert(d, txt, atEnd, ev)

\* The loop of the Enter path over the lines above lineIdx: the delimiter
\* lines among them, and the last of these (-1 when there is none).
DelimitersAbove(txt, lineIdx, delimiter) ==
    LET above == {i \in 0..(lineIdx - 1) : Trim(GetLine(txt, i)) = delimiter}
    IN  [delimiterCount |-> Cardinality(above),
         lastDelimiterLine |-> IF above = {} THEN -1
                               ELSE CHOOSE i \in above : \A j \in above : j <= i]

\* The legacy shortcut test of the Enter path: some line of the shortcuts
\* setting matches the rule pattern and its trigger starts lineText.
hasMatch(lineText, shortcuts) ==
    LET defs == Split(shortcuts, NL)
    IN  \E i \in 1..Len(defs) :
           RuleOf(defs[i]).matched /\ StartsWith(lineText, RuleOf(defs[i]).trigger)

\* The execute callback with byEnter set, after the session check: the line
\* above the cursor closes a block, which is sent (advanced mode only); or it
\* starts with a shortcut trigger, and the desktop build deletes it and runs
\* routine; or nothing is done.
executeByEnter(d, proc, txt, cur, ev) ==
    LET key == fileKey(d)
        lineIdx == cur.line - 1
        lineText == Trim(GetLine(txt, lineIdx))
        delimiter == settings.blockDelimiter
        da == DelimitersAbove(txt, lineIdx, delimiter)
        openingLine == da.lastDelimiterLine
        Nothing == /\ ev = NoEval
                   /\ text' = [text EXCEPT ![d] = txt]
                   /\ cursor' = [cursor EXCEPT ![d] = cur]
                   /\ UNCHANGED <<statusBar, notices, procs, reads, fault>>
    IN  \E rawBlockContent \in
               {Join(SubSeq(Lines(txt), openingLine + 2, lineIdx), <<NL>>)} :
        \E blockContent \in {applyShortcuts(rawBlockContent, settings.shortcuts)} :
        \E joined \in {ReplaceRange(txt, <<>>,
                          [line |-> lineIdx, ch |-> Len(GetLine(txt, lineIdx))], cur)} :
        \E atDelim \in {ClipPos(joined, [line |-> lineIdx,
                                         ch |-> Len(GetLine(joined, lineIdx))])} :
        \E deleted \in {ReplaceRange(txt, <<>>, [line |-> lineIdx, ch |-> 0], cur)} :
        IF delimiter # <<>> /\ lineText = delimiter
        THEN IF da.delimiterCount % 2 = 1 /\ da.lastDelimiterLine >= 0
                /\ Trim(rawBlockContent) # <<>>
             THEN /\ ev = NoEval
                  /\ statusBar' = "busy"
                  /\ text' = [text EXCEPT ![d] = joined]
                  /\ cursor' = [cursor EXCEPT ![d] = atDelim]
                  /\ IF settings.useJsonProtocol /\ advanced
                     THEN /\ reads' = reads \cup
                                {[id |-> execCount + 1, key |-> key, doc |-> d,
                                  command |-> blockContent, cursorLine |-> lineIdx,
                                  selectedText |-> <<>>, proc |-> proc]}
                          /\ UNCHANGED procs
                     ELSE IF advanced
                     THEN /\ procs' = Write(procs, proc,
                                  Msg("plain", execCount + 1, d, blockContent \o <<NL>>))
                          /\ UNCHANGED reads
                     ELSE UNCHANGED <<procs, reads>>
                  /\ UNCHANGED <<notices, fault>>
             ELSE Nothing
        ELSE IF ~hasMatch(lineText, settings.shortcuts)
        THEN Nothing
        ELSE routine(d, proc, deleted, [line |-> lineIdx, ch |-> 0], cur.line, <<>>, ev)

\* executeCallback with the pending execution context recorded before the
\* session check instead of after it.
executeCallback_NoteBeforeCheck(d, txt, cur, byEnter, selection, ev) ==
    LET proc == allSubprocesses[fileKey(d)]
    IN  /\ processingNote' = d
        /\ IF proc = Absent
           THEN /\ ev = NoEval
                /\ text' = [text EXCEPT ![d] = txt]
                /\ cursor' = [cursor EXCEPT ![d] = cur]
                /\ UNCHANGED <<statusBar, notices, procs, reads, fault>>
           ELSE IF byEnter THEN executeByEnter(d, proc, txt, cur, ev)
                ELSE routine(d, proc, txt, cur, cur.line, selection, ev)

\* The editorCallback of the execute command for the view of document d,
\* entered when the editor holds txt with the cursor at cur.
executeCallback(d, txt, cur, byEnter, selection, ev) ==
    LET proc == allSubprocesses[fileKey(d)]
    IN  IF proc = Absent
        THEN \* if (!this.allSubprocesses[fileKey]) return;
             /\ ev = NoEval
             /\ text' = [text EXCEPT ![d] = txt]
             /\ cursor' = [cursor EXCEPT ![d] = cur]
             /\ UNCHANGED <<processingNote, statusBar, notices, procs, reads, fault>>
        ELSE /\ processingNote' = d
             /\ IF byEnter THEN executeByEnter(d, proc, txt, cur, ev)
                ELSE routine(d, proc, txt, cur, cur.line, selection, ev)

\* The execute command run from the command palette or the ribbon (byEnter is
\* false) with the given selection; ev is what in-process evaluation does.
ExecuteCmd(selection, ev) ==
    /\ loaded
    /\ execCount < MaxExec
    /\ execCount' = execCount + 1
    /\ executeCallback(activeFile, text[activeFile], cursor[activeFile], FALSE,
                       selection, ev)
    /\ UNCHANGED <<settings, advanced, allSubprocesses, timers, activeFile, loaded,
                   settingsChanges>>

\* The document and the cursor after the editor has handled Enter with the
\* cursor at the end of line ln: a line break there, the cursor behind it.
AfterEnter(txt, ln) ==
    LET pos == [line |-> ln, ch |-> Len(GetLine(txt, ln))]
    IN  [text |-> ReplaceRange(txt, <<NL>>, pos, pos),
         cursor |-> [line |-> ln + 1, ch |-> 0]]

\* The lines the user can press Enter at the end of.
EnterLines == 0..(Len(Lines(text[activeFile])) - 1)

\* The keydown handler for Enter (without Shift) pressed at the end of line ln
\* of the active editor. The editor has broken the line when the handler
\* runs; the handler schedules the warm-up and runs the execute command with
\* byEnter set.
KeydownEnter(ln, ev) ==
    /\ loaded
    /\ execCount < MaxExec
    /\ timers[activeFile] < MaxTimers
    /\ ln \in EnterLines
    /\ timers' = [timers EXCEPT ![activeFile] = @ + 1]
    /\ execCount' = execCount + 1
    /\ \E e \in {AfterEnter(text[activeFile], ln)} :
          executeCallback(activeFile, e.text, e.cursor, TRUE, <<>>, ev)
    /\ UNCHANGED <<settings, advanced, allSubprocesses, activeFile, loaded,
                   settingsChanges>>

\* The continuation of the cachedRead of a JSON execution: write the envelope
\* to whatever the table holds for the key of the execution.
ReadDone(r) ==
    /\ r \in reads
    /\ reads' = reads \ {r}
    /\ LET proc == allSubprocesses[r.key]
       IN  IF proc < 1
           THEN \* allSubprocesses[fileKey] is undefined: a TypeError
                /\ fault' = "readTypeError"
                /\ UNCHANGED procs
           ELSE /\ procs' = Write(procs, proc,
                                  [Msg("json", r.id, r.doc, r.command) EXCEPT
                                      !.notePath = activeFile,
                                      !.cursorLine = r.cursorLine,
                                      !.selectedText = r.selectedText])
                /\ UNCHANGED fault
    /\ UNCHANGED <<settings, advanced, allSubprocesses, processingNote, statusBar,
                   notices, timers, activeFile, text, cursor, loaded, execCount,
                   settingsChanges>>

\* ------------------------------------------------------------ output drain

DotPrompt == <<".", ".", ".", " ">>

RECURSIVE StripPrompts(_)
\* ((>>> )|(\.\.\. ))+ at the start of a line
StripPrompts(line) ==
    IF StartsWith(line, Prompt) \/ StartsWith(line, DotPrompt)
    THEN StripPrompts(SubSeq(line, 5, Len(line))) ELSE line

RECURSIVE MapStrip(_)
MapStrip(ls) == IF ls = <<>> THEN <<>> ELSE <<StripPrompts(Head(ls))>> \o MapStrip(Tail(ls))

\* data.replace(new RegExp(regexpCleaner, 'mg'), '') with the default cleaner
\* '^((>>> )|(\.\.\. ))+': the prompts at the start of every line go.
Clean(data) == Join(MapStrip(Split(data, NL)), <<NL>>)

\* The chunks a process can emit.
ChunkData == {<<"a", NL>>, Prompt}

\* processOutput(data) of process p.
processOutput(p, data) ==
    LET cleaned == Clean(data)
    IN  IF procs[p].omitted < settings.linesToSuppress
        THEN /\ procs' = [procs EXCEPT ![p].outq = Tail(@), ![p].omitted = @ + 1,
                                       ![p].received = @ + 1]
             /\ UNCHANGED <<statusBar, notices, text, cursor>>
        ELSE /\ procs' = [procs EXCEPT ![p].outq = Tail(@), ![p].received = @ + 1]
             /\ IF cleaned # <<>> /\ processingNote = activeFile
                THEN /\ InsertOutput(activeFile, text[activeFile], cursor[activeFile], cleaned)
                     /\ statusBar' = ""
                ELSE UNCHANGED <<statusBar, notices, text, cursor>>

\* A chunk of output of process p, owed for the oldest command not yet
\* answered, reaches its listener.
ChunkArrives(p, data) ==
    /\ p \in 1..Len(procs)
    /\ procs[p].outq # <<>>
    /\ processOutput(p, data)
    /\ UNCHANGED <<settings, advanced, allSubprocesses, processingNote, timers,
                   reads, activeFile, loaded, execCount, settingsChanges, fault>>

\* ------------------------------------------------------------ specification

\* Every handler that runs uses one step of the budget of a behaviour.
Tick == steps < MaxSteps /\ steps' = steps + 1 /\ UNCHANGED <<call, returned>>

\* One handler runs.
Next ==
    \/ Tick /\ \E d \in Docs : SwitchDoc(d)
    \/ Tick /\ \E f \in ChangeableSettings : \E v \in SettingValues(f) : ChangeSetting(f, v)
    \/ Tick /\ Keydown
    \/ Tick /\ \E o \in {"ok", "writeThrows", "killThrows"} : RestartCmd(o)
    \/ Tick /\ \E d \in Docs : \E o \in SpawnOutcomes \cup {"present", "js"} : WarmupTimer(d, o)
    \/ Tick /\ Unload
    \/ Tick /\ \E sel \in Selections : \E ev \in EvalOutcomes \cup {NoEval} : ExecuteCmd(sel, ev)
    \/ Tick /\ \E ln \in EnterLines : \E ev \in EvalOutcomes \cup {NoEval} : KeydownEnter(ln, ev)
    \/ Tick /\ \E r \in reads : ReadDone(r)
    \/ Tick /\ \E p \in 1..Len(procs) : \E data \in ChunkData : ChunkArrives(p, data)

Spec == Init /\ [][Next]_vars

\* ------------------------------------------------------------ fair timers

\* The outcomes of a warm-up when the process can be spawned.
LiveOutcomes == {"ok", "present", "js"}

LiveTick == steps < MaxLiveSteps /\ steps' = steps + 1 /\ UNCHANGED <<call, returned>>

\* The callback of a timer set by the restart command runs. A timer that is
\* set runs whether or not other handlers may still run.
TimerFires(d) ==
    /\ \E o \in LiveOutcomes : WarmupTimer(d, o)
    /\ steps' = IF steps < MaxLiveSteps THEN steps + 1 ELSE steps
    /\ UNCHANGED <<call, returned>>

LiveNext ==
    \/ LiveTick /\ \E d \in Docs : SwitchDoc(d)
    \/ LiveTick /\ \E f \in ChangeableSettings : \E v \in SettingValues(f) : ChangeSetting(f, v)
    \/ LiveTick /\ Keydown
    \/ LiveTick /\ \E o \in {"ok", "writeThrows", "killThrows"} : RestartCmd(o)
    \/ \E d \in Docs : TimerFires(d)
    \/ LiveTick /\ Unload
    \/ LiveTick /\ \E sel \in Selections : \E ev \in EvalOutcomes \cup {NoEval} : ExecuteCmd(sel, ev)
    \/ LiveTick /\ \E ln \in EnterLines : \E ev \in EvalOutcomes \cup {NoEval} : KeydownEnter(ln, ev)
    \/ LiveTick /\ \E r \in reads : ReadDone(r)
    \/ LiveTick /\ \E p \in 1..Len(procs) : \E data \in ChunkData : ChunkArrives(p, data)

\* Every timer that is set runs (setTimeout), and the process can be spawned.
LiveSpec == Init /\ [][LiveNext]_vars /\ \A d \in Docs : WF_vars(TimerFires(d))

\* ---------------------------------------------------------- pure functions

\* The block locator, the shortcut expander and the output inserter are
\* functions of their arguments. FnSpec applies each of them once to
\* arguments drawn from bounded sets; the plugin is at rest meanwhile.

\* The sequences over S of length at most n.
SeqsUpTo(S, n) == UNION {[1..k -> S] : k \in 0..n}

\* The lines of the documents handed to findBlockAtCursor: the delimiter, the
\* delimiter with trailing content, a line of text, an empty line.
BlockLineKinds == {Delim, Delim \o <<" ", "p">>, <<"x">>, <<>>}

FindBlockCalls ==
    UNION {{[fn |-> "findBlockAtCursor", text |-> Join(ls, <<NL>>), cursorLine |-> n,
             delimiter |-> Delim] : n \in 0..(Len(ls) - 1)} :
               ls \in SeqsUpTo(BlockLineKinds, MaxDocLines) \ {<<>>}}

\* A line of the shortcuts setting: trigger, arrow, template.
RuleLine(trigger, tag) == trigger \o <<" ">> \o Arrow \o <<" ">> \o tag \o <<"(">> \o ParamToken \o <<")">>

\* The rules of the rule sets: three triggers (one of them empty), each with
\* two templates that tell the rules apart.
RuleKinds ==
    {RuleLine(tr, tag) : tr \in {<<>>, <<"@">>, <<"@", "@">>}, tag \in {<<"f">>, <<"g">>}}

\* The shortcuts setting with the given rule lines, each ended by a line break.
ShortcutsOf(rules) == Join(rules \o <<<<>>>>, <<NL>>)

RuleContents ==
    {<<"@", "@", " ", "h">>, <<"@", "h">>, <<"h">>, <<"@", "@">>, <<"@", "a", NL, "b">>}

\* The characters of the parameters whose escape is examined.
ParamChars == {"\"", BS, "a"}

\* The shortcuts setting with one rule whose template marks the placeholder
\* raw: "@ -> f(r##param##)".
RawShortcuts ==
    ShortcutsOf(<<<<"@", " ">> \o Arrow \o <<" ", "f", "(">> \o RawParamToken \o <<")">>>>)

ApplyShortcutsCalls ==
    {[fn |-> "applyShortcuts", content |-> c, shortcuts |-> ShortcutsOf(rules), param |-> <<>>] :
        c \in RuleContents, rules \in SeqsUpTo(RuleKinds, MaxRules)}
    \cup
    {[fn |-> "applyShortcuts", content |-> <<"@">> \o prm, shortcuts |-> DefaultShortcuts,
      param |-> prm] : prm \in SeqsUpTo(ParamChars, MaxParamLen) \ {<<>>}}
    \cup
    {[fn |-> "applyShortcuts", content |-> <<"@">> \o prm, shortcuts |-> RawShortcuts,
      param |-> <<>>] : prm \in SeqsUpTo({"a", "\""}, MaxRawParamLen) \ {<<>>}}

\* The document output is inserted into.
InsertDoc == <<"p", NL, "q", NL, "r">>

InsertTextCalls ==
    {[fn |-> "insertText", text |-> InsertDoc, cur |-> [line |-> ln, ch |-> 1], data |-> data,
      decorateMultiline |-> dm, prependOutput |-> Prompt] :
        ln \in {0, 1}, data \in SeqsUpTo({"a", NL, BS}, MaxDataLen), dm \in BOOLEAN}

FnInit ==
    /\ settings = DEFAULT_SETTINGS
    /\ advanced = FALSE
    /\ allSubprocesses = [k \in Keys |-> Absent]
    /\ processingNote = ""
    /\ statusBar = ""
    /\ notices = <<>>
    /\ procs = <<>>
    /\ activeFile = "A.md"
    /\ timers = [d \in Docs |-> 0]
    /\ reads = {}
    /\ text = [d \in Docs |-> InitialText(d)]
    /\ cursor = [d \in Docs |-> InitialCursor(d)]
    /\ loaded = FALSE
    /\ execCount = 0
    /\ settingsChanges = 0
    /\ fault = "none"
    /\ steps = 0
    /\ call \in FindBlockCalls \cup ApplyShortcutsCalls \cup InsertTextCalls
    /\ returned = NoCall

CallFindBlockAtCursor ==
    /\ call.fn = "findBlockAtCursor"
    /\ returned = NoCall
    /\ returned' = [fn |-> call.fn,
                    value |-> findBlockAtCursor(call.text, call.cursorLine, call.delimiter)]
    /\ UNCHANGED <<pluginVars, call>>

CallApplyShortcuts ==
    /\ call.fn = "applyShortcuts"
    /\ returned = NoCall
    /\ returned' = [fn |-> call.fn, value |-> applyShortcuts(call.content, call.shortcuts)]
    /\ UNCHANGED <<pluginVars, call>>

CallInsertText ==
    /\ call.fn = "insertText"
    /\ returned = NoCall
    /\ returned' = [fn |-> call.fn,
                    value |-> insertText(call.text, call.cur, call.data,
                                         call.decorateMultiline, call.prependOutput)]
    /\ UNCHANGED <<pluginVars, call>>

FnNext ==
    \/ CallFindBlockAtCursor
    \/ CallApplyShortcuts
    \/ CallInsertText

FnSpec == FnInit /\ [][FnNext]_vars

\* ------------------------------------------------------------------ claims

TeardownResults == {"ok", "writeThrows", "killThrows"}

\* The live processes spawned for a routing key.
Live(key) == {p \in 1..Len(procs) : procs[p].alive /\ procs[p].key = key}

\* C1: a chunk of output owed for a command dispatched in document A is never
\* inserted into another document.
C1_ChunkOnlyIntoOrigin ==
    [][\A p \in 1..Len(procs) : \A data \in ChunkData :
          ChunkArrives(p, data) =>
             \A d \in Docs : text'[d] # text[d] => d = Head(procs[p].outq).origin]_vars

\* C2: every routing key has at most one live external process.
C2_OneLivePerKey == \A key \in Keys : Cardinality(Live(key)) <= 1

\* C3: an explicit restart in advanced mode for key "*" with a session
\* recorded writes the teardown text, newline-terminated, to that process,
\* kills it and removes its record; an execute routed to "*" while no session
\* is recorded for it sends nothing and changes nothing.
C3_RestartTearsDown ==
    [][/\ \A o \in TeardownResults :
             (advanced /\ fileKey(activeFile) = "*" /\ allSubprocesses["*"] >= 1
              /\ RestartCmd(o)) =>
                LET p == allSubprocesses["*"]
                IN  /\ settings.executeOnUnload # <<>> =>
                           procs'[p].stdin = Append(procs[p].stdin,
                              Msg("unload", 0, None, settings.executeOnUnload \o <<NL>>))
                    /\ ~procs'[p].alive
                    /\ allSubprocesses'["*"] = Absent
       /\ \A sel \in Selections : \A ev \in EvalOutcomes \cup {NoEval} :
             (advanced /\ fileKey(activeFile) = "*" /\ allSubprocesses["*"] = Absent
              /\ ExecuteCmd(sel, ev)) =>
                UNCHANGED <<procs, reads, text, cursor, statusBar, processingNote, notices>>
       /\ \A ln \in EnterLines : \A ev \in EvalOutcomes \cup {NoEval} :
             (advanced /\ fileKey(activeFile) = "*" /\ allSubprocesses["*"] = Absent
              /\ KeydownEnter(ln, ev)) =>
                UNCHANGED <<procs, reads, statusBar, processingNote, notices>>
      ]_vars

\* C4: when a setting is changed and saved, every recorded session is torn
\* down: its process is terminated and its record is gone.
C4_SettingsChangeTearsDown ==
    [][\A f \in ChangeableSettings : \A v \in SettingValues(f) :
          ChangeSetting(f, v) =>
             \A k \in Keys : allSubprocesses[k] >= 1 =>
                /\ allSubprocesses'[k] = Absent
                /\ ~procs'[allSubprocesses[k]].alive]_vars

\* C5: after unload the session table is empty and no process it recorded at
\* the moment of unload is alive.
C5_UnloadKillsAll ==
    [][Unload =>
          /\ \A k \in Keys : allSubprocesses'[k] = Absent
          /\ \A p \in Recorded : ~procs'[p].alive]_vars

\* C6: an execute issued (from the palette, the ribbon or by Enter) while no
\* session is recorded for its routing key sends nothing, evaluates nothing
\* and leaves the documents, the cursors, the busy indicator, the pending
\* execution context and the notices unchanged; issued by Enter, it leaves
\* the document as the editor's line break made it.
C6_ExecuteWithoutSessionIsNoOp ==
    [][/\ \A sel \in Selections : \A ev \in EvalOutcomes \cup {NoEval} :
             (allSubprocesses[fileKey(activeFile)] = Absent /\ ExecuteCmd(sel, ev)) =>
                /\ ev = NoEval
                /\ UNCHANGED <<text, cursor, statusBar, processingNote, notices, procs,
                               reads, fault>>
       /\ \A ln \in EnterLines : \A ev \in EvalOutcomes \cup {NoEval} :
             (allSubprocesses[fileKey(activeFile)] = Absent /\ KeydownEnter(ln, ev)) =>
                /\ ev = NoEval
                /\ text' = [text EXCEPT ![activeFile] = AfterEnter(@, ln).text]
                /\ cursor' = [cursor EXCEPT ![activeFile] = AfterEnter(text[activeFile], ln).cursor]
                /\ UNCHANGED <<statusBar, processingNote, notices, procs, reads, fault>>
      ]_vars

\* An execute has been issued, and every execute so far found no session.
C6_Witness == execCount >= 1 /\ processingNote = "" /\ loaded

\* C7: the continuation of the document read of a JSON execution writes no
\* envelope when the active document is no longer the one of the dispatch.
C7_ReadContinuationRechecks ==
    [][\A r \in reads :
          (r.doc # activeFile /\ ReadDone(r)) => UNCHANGED procs]_vars

\* C8: when the interpreter cannot be started during warm-up, a notice is
\* shown and no session is recorded for the routing key.
C8_SpawnFailureNoticed ==
    [][\A d \in Docs : \A o \in {"enoent", "throws", "nomodule"} :
          (advanced /\ allSubprocesses[fileKey(d)] = Absent /\ WarmupTimer(d, o)) =>
             /\ notices' = Append(notices, UnableNotice)
             /\ allSubprocesses'[fileKey(d)] = Absent]_vars

\* C9: in basic mode no value evaluation returns or throws makes the execute
\* callback fail, and a thrown value is shown: inserted, or given as a notice.
C9_EvalNeverPropagates ==
    [][\A sel \in Selections : \A ev \in EvalOutcomes :
          (~advanced /\ ExecuteCmd(sel, ev)) =>
             /\ fault' = fault
             /\ ev.thrown => (text' # text \/ notices' # notices)]_vars

\* C10: in basic mode an evaluation that yields undefined or the empty string
\* leaves the document text unchanged.
C10_EmptyResultNoMutation ==
    [][\A sel \in Selections : \A ev \in EvalOutcomes :
          (~advanced /\ (ev.kind = "undefined" \/ (ev.kind = "string" /\ ev.text = <<>>))
           /\ ExecuteCmd(sel, ev)) =>
             text' = text]_vars

\* C11: an execute (from the palette, the ribbon or by Enter) that finds no
\* selection and no block at the cursor shows the no-block notice, and an
\* execute that ends with that notice leaves the text of every document as it
\* was before the command was triggered (by Enter: as it was before the key
\* was pressed, or as the editor's line break made it).
C11_NoBlockNoMutation ==
    [][/\ \A sel \in Selections : \A ev \in EvalOutcomes \cup {NoEval} :
             (allSubprocesses[fileKey(activeFile)] # Absent /\ ExecuteCmd(sel, ev)) =>
                /\ (Trim(sel) = <<>>
                    /\ ~findBlockAtCursor(text[activeFile], cursor[activeFile].line,
                                          settings.blockDelimiter).found)
                      => notices' = Append(notices, NoBlockNotice)
                /\ notices' = Append(notices, NoBlockNotice) => text' = text
       /\ \A ln \in EnterLines : \A ev \in EvalOutcomes \cup {NoEval} :
             (allSubprocesses[fileKey(activeFile)] # Absent /\ KeydownEnter(ln, ev)
              /\ notices' = Append(notices, NoBlockNotice)) =>
                \/ text' = text
                \/ text' = [text EXCEPT ![activeFile] = AfterEnter(@, ln).text]
      ]_vars

\* The indices of the delimiter lines of the document of the observed call.
DelimiterSet ==
    {i \in 0..(Len(Lines(call.text)) - 1) :
        IsDelimiterLine(Lines(call.text)[i + 1], call.delimiter)}

\* a and b are the Nth and (N+1)th delimiter lines for some N.
Consecutive(a, b) ==
    /\ a \in DelimiterSet /\ b \in DelimiterSet /\ a < b
    /\ \A m \in DelimiterSet : ~(a < m /\ m < b)

FindBlockReturned == call.fn = "findBlockAtCursor" /\ returned # NoCall

\* C12: when the cursor line is strictly between the Nth and the (N+1)th
\* delimiter line of the document, findBlockAtCursor returns the lines
\* strictly between those two lines, joined by line breaks, with startLine
\* and endLine the indices of the two delimiter lines.
C12_BlockBetweenDelimiters ==
    FindBlockReturned =>
        \A a, b \in DelimiterSet :
            (Consecutive(a, b) /\ a < call.cursorLine /\ call.cursorLine < b) =>
                returned.value =
                    [found |-> TRUE,
                     content |-> Join([k \in 1..(b - a - 1) |-> Lines(call.text)[a + 1 + k]],
                                      <<NL>>),
                     startLine |-> a,
                     endLine |-> b]

\* The cursor is strictly inside the second block of a document with three
\* delimiter lines or more, and a block was returned.
C12_Witness ==
    /\ FindBlockReturned
    /\ returned.value.found
    /\ \E a, b \in DelimiterSet :
          /\ Consecutive(a, b) /\ a < call.cursorLine /\ call.cursorLine < b
          /\ \E m \in DelimiterSet : m < a

\* C13: findBlockAtCursor reports no block exactly when no pair of
\* consecutive delimiter lines has the cursor line in its inclusive range;
\* so it reports no block wherever the cursor is when the document has fewer
\* than two delimiter lines, and what it returns is never the whole document.
C13_NoBlockOutsidePairs ==
    FindBlockReturned =>
        /\ ~returned.value.found <=>
              ~\E a, b \in DelimiterSet :
                  Consecutive(a, b) /\ a <= call.cursorLine /\ call.cursorLine <= b
        /\ Cardinality(DelimiterSet) < 2 => returned.value = NoBlock
        /\ returned.value.found => returned.value.content # call.text

\* No block is reported for a cursor above the first of two delimiter lines
\* or more.
C13_Witness ==
    /\ FindBlockReturned
    /\ ~returned.value.found
    /\ Cardinality(DelimiterSet) >= 2
    /\ \A m \in DelimiterSet : call.cursorLine < m

ApplyShortcutsReturned == call.fn = "applyShortcuts" /\ returned # NoCall

\* The lines of the shortcuts setting of the observed call.
CallDefs == Split(call.shortcuts, NL)

\* The first line of the content of the observed call.
CallFirstLine == Split(call.content, NL)[1]

\* The rules of the observed call with a trigger that is not empty and is a
\* prefix of the first content line.
Candidates ==
    {i \in 1..Len(CallDefs) :
        /\ RuleOf(CallDefs[i]).matched
        /\ RuleOf(CallDefs[i]).trigger # <<>>
        /\ StartsWith(CallFirstLine, RuleOf(CallDefs[i]).trigger)}

\* C14: when the triggers of several rules are prefixes of the first content
\* line, applyShortcuts returns the expansion of the rule with the longest
\* trigger, wherever it is declared; among triggers of equal length the rule
\* declared first is the one expanded.
C14_LongestTriggerWins ==
    ApplyShortcutsReturned =>
        \A w \in Candidates :
            (\A j \in Candidates :
                /\ Len(RuleOf(CallDefs[j]).trigger) <= Len(RuleOf(CallDefs[w]).trigger)
                /\ Len(RuleOf(CallDefs[j]).trigger) = Len(RuleOf(CallDefs[w]).trigger) => w <= j)
            => returned.value = Expand(Split(call.content, NL), CallFirstLine,
                                       RuleOf(CallDefs[w]).trigger, RuleOf(CallDefs[w]).template)

\* A rule with the longer trigger is declared after a rule with a shorter
\* trigger, both match, and a rule of equal trigger length follows the winner.
C14_Witness ==
    /\ ApplyShortcutsReturned
    /\ returned.value # call.content
    /\ \E i, j, k \in Candidates :
          /\ i < j /\ j < k
          /\ Len(RuleOf(CallDefs[i]).trigger) < Len(RuleOf(CallDefs[j]).trigger)
          /\ Len(RuleOf(CallDefs[k]).trigger) = Len(RuleOf(CallDefs[j]).trigger)
          /\ RuleOf(CallDefs[k]).template # RuleOf(CallDefs[j]).template

\* The lines of the shortcuts setting of the observed call without the rules
\* whose trigger is empty.
DefsWithoutEmptyTriggers ==
    SelectSeq(CallDefs, LAMBDA d : ~(RuleOf(d).matched /\ RuleOf(d).trigger = <<>>))

\* C15: a rule whose trigger is empty never matches: the result of
\* applyShortcuts is the result for the rule set without its rules with an
\* empty trigger, and when no trigger that is not empty is a prefix of the
\* first line the content is returned as it is.
C15_EmptyTriggerNeverMatches ==
    ApplyShortcutsReturned =>
        /\ returned.value = applyShortcuts(call.content, Join(DefsWithoutEmptyTriggers, <<NL>>))
        /\ Candidates = {} => returned.value = call.content

\* The rule set has a rule with an empty trigger and no other rule matches:
\* the content comes back as it is.
C15_Witness ==
    /\ ApplyShortcutsReturned
    /\ \E i \in 1..Len(CallDefs) : RuleOf(CallDefs[i]).matched /\ RuleOf(CallDefs[i]).trigger = <<>>
    /\ Candidates = {}
    /\ returned.value = call.content

RECURSIVE CountQ3(_)
\* The triple double quotes of s, counted from the left without overlap.
CountQ3(s) ==
    IF Len(s) < 3 THEN 0
    ELSE IF SubSeq(s, 1, 3) = Q3 THEN 1 + CountQ3(SubSeq(s, 4, Len(s)))
    ELSE CountQ3(Tail(s))

\* The escaped parameter in the expansion of the rule "@ -> ##param##": the
\* returned text without the triple double quotes that wrap it.
EscapedParam == SubSeq(returned.value, 4, Len(returned.value) - 3)

\* C16: the expander escapes each triple double quote of the parameter
\* before it substitutes it, and the escape can be reversed: replacing every
\* triple double quote that follows a backslash in the escaped parameter by a
\* plain triple double quote gives the parameter back, also for parameters
\* with backslashes or with runs of more than three double quotes.
C16_EscapeReversible ==
    (ApplyShortcutsReturned /\ call.param # <<>>) =>
        /\ Len(returned.value) >= 6
        /\ SubSeq(returned.value, 1, 3) = Q3
        /\ SubSeq(returned.value, Len(returned.value) - 2, Len(returned.value)) = Q3
        /\ Len(EscapedParam) = Len(call.param) + CountQ3(call.param)
        /\ ReplaceAll(EscapedParam, <<BS>> \o Q3, Q3) = call.param

\* A parameter with a backslash right before a run of more than three double
\* quotes has been expanded.
C16_Witness ==
    /\ ApplyShortcutsReturned
    /\ Len(call.param) >= 5
    /\ SubSeq(call.param, 1, 5) = <<BS>> \o Q3 \o <<"\"">>
    /\ EscapedParam # call.param

InsertTextReturned == call.fn = "insertText" /\ returned # NoCall

\* The output of the observed call without a single trailing line break.
DataWithoutTrailingBreak ==
    IF call.data # <<>> /\ call.data[Len(call.data)] = NL
    THEN SubSeq(call.data, 1, Len(call.data) - 1) ELSE call.data

\* C17: with multiline decoration the inserted body is a line break, the
\* prefix, and the output with its single trailing line break stripped and
\* every other line break followed by the prefix.
C17_EveryInternalBreakDecorated ==
    (InsertTextReturned /\ call.decorateMultiline) =>
        returned.value.text =
            ReplaceRange(call.text,
                         <<NL>> \o call.prependOutput
                            \o ReplaceAll(DataWithoutTrailingBreak, <<NL>>,
                                          <<NL>> \o call.prependOutput),
                         call.cur, call.cur)

\* C18: after an insertion the cursor is at the end of the last line the
\* insertion wrote: on the insertion line plus the line breaks of the
\* inserted body (the lines the document gained), at the end of that line.
C18_CursorOnLastWrittenLine ==
    InsertTextReturned =>
        returned.value.cursor =
            [line |-> call.cur.line
                        + (Len(Lines(returned.value.text)) - Len(Lines(call.text))),
             ch |-> Len(GetLine(returned.value.text,
                                call.cur.line
                                  + (Len(Lines(returned.value.text)) - Len(Lines(call.text)))))]

\* C19: of the chunks a process emits, those received before the suppression
\* count configured for its session is reached are discarded, whatever they
\* hold and whatever document is active, and no chunk received after that is
\* discarded by suppression; the count starts when the session is created.
C19_FirstNChunksDiscarded ==
    [][\A p \in 1..Len(procs) : \A data \in ChunkData :
          (procs[p].outq # <<>> /\ ChunkArrives(p, data)) =>
              (procs'[p].omitted = procs[p].omitted + 1
                 <=> procs[p].received < procs[p].suppress)]_vars

\* The lines between the nearest delimiter line above line ln of the active
\* document and line ln, joined by line breaks.
BlockAbove(ln) ==
    Join(SubSeq(Lines(text[activeFile]),
                DelimitersAbove(text[activeFile], ln, settings.blockDelimiter).lastDelimiterLine + 2,
                ln),
         <<NL>>)

\* C20: Enter at the end of a line that equals the delimiter, with a session
\* recorded. After an odd number of earlier delimiter lines the lines since
\* the nearest of them, when not blank, are handed to the transport once: in
\* basic mode they are evaluated in process, in advanced mode one message
\* with them goes to the session (in structured mode by the read that is
\* scheduled). After an even number nothing is evaluated, written or
\* scheduled, and the document is as the line break left it.
C20_EnterClosesBlock ==
    [][\A ln \in EnterLines : \A ev \in EvalOutcomes \cup {NoEval} :
          (/\ allSubprocesses[fileKey(activeFile)] # Absent
           /\ Trim(GetLine(text[activeFile], ln)) = settings.blockDelimiter
           /\ KeydownEnter(ln, ev)) =>
              IF DelimitersAbove(text[activeFile], ln, settings.blockDelimiter).delimiterCount % 2 = 1
              THEN Trim(BlockAbove(ln)) # <<>> =>
                      IF advanced
                      THEN /\ ev = NoEval
                           /\ IF settings.useJsonProtocol
                              THEN /\ procs' = procs
                                   /\ \E r \in reads' \ reads :
                                         /\ reads' = reads \cup {r}
                                         /\ r.command = applyShortcuts(BlockAbove(ln), settings.shortcuts)
                              ELSE /\ reads' = reads
                                   /\ \E p \in 1..Len(procs) :
                                         /\ p = allSubprocesses[fileKey(activeFile)]
                                         /\ procs' = Write(procs, p,
                                               Msg("plain", execCount + 1, activeFile,
                                                   applyShortcuts(BlockAbove(ln), settings.shortcuts)
                                                      \o <<NL>>))
                      ELSE ev # NoEval /\ procs' = procs /\ reads' = reads
              ELSE /\ ev = NoEval
                   /\ procs' = procs
                   /\ reads' = reads
                   /\ text' = [text EXCEPT ![activeFile] = AfterEnter(@, ln).text]
      ]_vars

\* C21: a template that marks the placeholder raw and does not wrap it in
\* triple quotes expands with each r##param## replaced by the escaped
\* parameter in triple double quotes behind one raw prefix: "f(r##param##)"
\* and the parameter P give f(r"""P""").
C21_RawPlaceholderOnePrefix ==
    (ApplyShortcutsReturned /\ call.shortcuts = RawShortcuts) =>
        returned.value =
            <<"f", "(", "r">> \o Q3
                \o ReplaceAll(SubSeq(call.content, 2, Len(call.content)), Q3, <<BS>> \o Q3)
                \o Q3 \o <<")">>

\* C22: with timers that run, after the plugin is loaded and after every
\* restart request (explicit, or the warm-up of a keystroke) made with an
\* active editor, a session is eventually recorded under the routing key of
\* the document, when the process can be spawned (and the processes of one
\* behaviour are not used up); and an execute command that finds the session
\* recorded is not a no-op: it takes the document as the one being processed.
C22_WarmupEventuallyRecords ==
    /\ \A d \in Docs :
          (timers[d] > 0) ~> (allSubprocesses[fileKey(d)] # Absent \/ Len(procs) >= MaxProcs)
    /\ [][\A sel \in Selections : \A ev \in EvalOutcomes \cup {NoEval} :
             (allSubprocesses[fileKey(activeFile)] # Absent /\ ExecuteCmd(sel, ev))
                => processingNote' = activeFile]_vars

\* A restart request torn the session down, its timer ran, and a second
\* process is recorded under the routing key.
C22_Witness ==
    /\ Len(procs) = 2
    /\ allSubprocesses[fileKey(activeFile)] = 2
    /\ timers[activeFile] = 0
    /\ ~procs[1].alive

\* C23: a warm-up (of a keystroke or of the load of the plugin) does not tear
\* down or replace a session: the keystroke itself writes to no process,
\* kills none, and leaves the session table and the busy indicator as they
\* are, and so does the timer callback that finds a session recorded under
\* the routing key; no process is spawned.
C23_WarmupKeepsSession ==
    [][/\ (allSubprocesses[fileKey(activeFile)] # Absent /\ Keydown)
            => UNCHANGED <<procs, allSubprocesses, statusBar>>
       /\ \A d \in Docs : \A o \in SpawnOutcomes \cup {"present", "js"} :
            (allSubprocesses[fileKey(d)] # Absent /\ WarmupTimer(d, o))
                => UNCHANGED <<procs, allSubprocesses, statusBar>>
      ]_vars

\* A warm-up has been requested for the active document while a live process
\* is recorded under its routing key.
C23_Witness ==
    /\ advanced
    /\ execCount = 0
    /\ timers[activeFile] = 1
    /\ allSubprocesses[fileKey(activeFile)] = 1
    /\ Len(procs) = 1
    /\ procs[1].alive
    /\ steps >= 2

\* C24: in advanced mode with the structured protocol the continuation of a
\* read never raises an error, and it writes to no process but the one that
\* was recorded under the routing key when the execution was dispatched:
\* when that session has been torn down since, nothing is written.
C24_ReadContinuationSafe ==
    [][\A r \in reads :
          ReadDone(r) =>
             /\ fault' = fault
             /\ \A p \in 1..Len(procs) :
                   procs'[p] # procs[p] => (p = r.proc /\ allSubprocesses[r.key] = r.proc)
      ]_vars

\* C25: the messages of executions reach a process in the order in which the
\* executions were dispatched, in plain mode, in structured mode, and when
\* the protocol mode changes between two executions.
C25_MessagesInDispatchOrder ==
    \A p \in 1..Len(procs) :
        \A i, j \in 1..Len(procs[p].stdin) :
            (i < j /\ procs[p].stdin[i].doc # None /\ procs[p].stdin[j].doc # None)
                => procs[p].stdin[i].id < procs[p].stdin[j].id

\* C26: a chunk emitted by a process whose session has been torn down (by a
\* restart or by the unload) does not reach the output inserter: it changes
\* no document and shows no notice; only the chunks of a process recorded in
\* the session table do.
C26_TornDownProcessIsMute ==
    [][\A p \in 1..Len(procs) : \A data \in ChunkData :
          (p \notin Recorded /\ procs[p].outq # <<>> /\ ChunkArrives(p, data))
              => (text' = text /\ notices' = notices)]_vars

\* The block at the cursor of the active document.
BlockAtCursor ==
    findBlockAtCursor(text[activeFile], cursor[activeFile].line, settings.blockDelimiter)

\* Located again at the same cursor line after the step, the block has the
\* content it had before the step.
SameBlockAfter ==
    \E after \in {findBlockAtCursor(text'[activeFile], cursor[activeFile].line,
                                    settings.blockDelimiter)} :
        after.found /\ after.content = BlockAtCursor.content

\* C27: executing the delimiter block at the cursor does not change the
\* block: after the execution and after the insertion of its output the lines
\* strictly between its two delimiter lines are the same, so the block
\* located again at the same cursor has the same content.
C27_ExecutionKeepsBlock ==
    [][/\ \A sel \in Selections : \A ev \in EvalOutcomes \cup {NoEval} :
             (/\ Trim(sel) = <<>>
              /\ allSubprocesses[fileKey(activeFile)] # Absent
              /\ BlockAtCursor.found
              /\ ExecuteCmd(sel, ev)) => SameBlockAfter
       /\ \A p \in 1..Len(procs) : \A data \in ChunkData :
             (/\ execCount = 1
              /\ procs[p].outq # <<>>
              /\ Head(procs[p].outq).origin = activeFile
              /\ BlockAtCursor.found
              /\ ChunkArrives(p, data)) => SameBlockAfter
      ]_vars

====
